---- MODULE Spec2Model ----
(***************************************************************************)
(* ReportDoc PDF Service (src/app.py): a model of the request handlers,    *)
(* the payload validator, the fallback paginator and the file naming.      *)
(*                                                                         *)
(* Text is a sequence of one-character strings wherever the code works on  *)
(* characters (titles, notes, file names); opaque header values are        *)
(* strings.  Bytes are integers 0..255.                                    *)
(***************************************************************************)
EXTENDS Integers, Sequences, FiniteSets, TLC

VARIABLES
    API_KEY,    \* module global read from the environment at import (line 11)
    WEASY_OK,   \* module global: primary renderer importable (lines 19-25)
    now,        \* wall clock, whole seconds (time.time())
    files,      \* FILES_DIR: stored name -> bytes
    tmpfiles,   \* temporary directory: the paths that exist
    req,        \* worker slot -> the POST request in it: position, locals
    sent,       \* the POST response the latest step sent, with its request
    leaked,     \* history: temporary paths whose unlink failed
    hist,       \* history: stored name -> its writers (see NewHist)
    fn,         \* one call of _safe_filename: arguments, position, result
    val,        \* one Payload validation: input document, position, result
    pdf         \* one run of the ReportLab fallback of _write_pdf

svcVars == <<API_KEY, WEASY_OK, now, files, tmpfiles, req, sent, leaked, hist>>
vars == <<API_KEY, WEASY_OK, now, files, tmpfiles, req, sent, leaked, hist,
          fn, val, pdf>>

---------------------------------------------------------------------------
(* Characters                                                              *)

Upper == {"A","B","C","D","E","F","G","H","I","J","K","L","M",
          "N","O","P","Q","R","S","T","U","V","W","X","Y","Z"}
Lower == {"a","b","c","d","e","f","g","h","i","j","k","l","m",
          "n","o","p","q","r","s","t","u","v","w","x","y","z"}
DigitChars == <<"0","1","2","3","4","5","6","7","8","9">>
Digit == {DigitChars[i] : i \in 1..10}

\* the character class [A-Za-z0-9_-] of line 126
SafeChar(c) == c \in Upper \cup Lower \cup Digit \cup {"_", "-"}

\* int -> decimal text, as the f-string of line 127 formats int(time.time())
RECURSIVE IntToStr(_)
IntToStr(n) ==
    IF n < 10 THEN <<DigitChars[n + 1]>>
    ELSE IntToStr(n \div 10) \o <<DigitChars[(n % 10) + 1]>>

---------------------------------------------------------------------------
(* _safe_filename (lines 125-127)                                          *)

\* first index >= i of s holding a character of the class, or Len(s)+1
RECURSIVE RunEnd(_, _)
RunEnd(s, i) ==
    IF i > Len(s) \/ SafeChar(s[i]) THEN i ELSE RunEnd(s, i + 1)

\* a mutant of ReSub: every character outside the class becomes its own "_"
RECURSIVE ReSubPerChar(_, _)
ReSubPerChar(s, i) ==
    IF i > Len(s) THEN <<>>
    ELSE (IF SafeChar(s[i]) THEN <<s[i]>> ELSE <<"_">>) \o ReSubPerChar(s, i + 1)

\* re.sub(r"[^A-Za-z0-9_-]+", "_", s) scanning from index i: the leftmost,
\* longest run of characters outside the class becomes one "_"
RECURSIVE ReSub(_, _)
ReSub(s, i) ==
    IF i > Len(s) THEN <<>>
    ELSE IF SafeChar(s[i]) THEN <<s[i]>> \o ReSub(s, i + 1)
    ELSE <<"_">> \o ReSub(s, RunEnd(s, i))

\* str.strip(chars): drop leading and trailing characters that are in chars
RECURSIVE LStrip(_, _)
LStrip(s, chars) ==
    IF s # <<>> /\ Head(s) \in chars THEN LStrip(Tail(s), chars) ELSE s

RECURSIVE RStrip(_, _)
RStrip(s, chars) ==
    IF s # <<>> /\ s[Len(s)] \in chars
    THEN RStrip(SubSeq(s, 1, Len(s) - 1), chars) ELSE s

Strip(s, chars) == RStrip(LStrip(s, chars), chars)

ReportWord == <<"r","e","p","o","r","t">>
PdfSuffix == <<".","p","d","f">>

\* base = re.sub(...).strip("_") or "report"
SafeBase(title) ==
    LET b == Strip(ReSub(title, 1), {"_"})
    IN  IF b = <<>> THEN ReportWord ELSE b

\* f"{base}_{int(time.time())}.pdf"
SafeFilename(title, t) == SafeBase(title) \o <<"_">> \o IntToStr(t) \o PdfSuffix

---------------------------------------------------------------------------
(* Payload validation (lines 42-77)                                        *)

\* Python's None for an optional string kept as an opaque string
\* (x_api_key, API_KEY, bigquery_link) and for optional text (notes)
None == "<None>"
NoneText == <<"<None>">>

\* characters str.strip() removes (str.isspace), the ones the model draws
WhiteSpace == {" ", "\t", "\n", "\r"}

\* EmailStr: one "@" with a non-empty local part and a non-empty domain
IsEmail(e) ==
    /\ Cardinality({i \in 1..Len(e) : e[i] = "@"}) = 1
    /\ e[1] # "@"
    /\ e[Len(e)] # "@"
    /\ \A i \in 1..Len(e) : e[i] \notin WhiteSpace

\* HttpUrl: a URL whose scheme is http or https, with a host
IsHttpUrl(u) == u \in {"http://bq.example/q", "https://sheets.example/r"}

\* Field(pattern=r"^(daily|weekly|monthly)$")
FrequencyOk(f) == f \in {"daily", "weekly", "monthly"}

\* f"For access issues, contact {self.owner.email}"
NotesPrefix ==
    <<"F","o","r"," ","a","c","c","e","s","s"," ","i","s","s","u","e","s",
      ","," ","c","o","n","t","a","c","t"," ">>
DefaultNotes(email) == NotesPrefix \o email

\* the per-field checks pydantic runs before any model validator: the
\* set of fields that fail their declared type
FieldErrors(d) ==
    {f \in {"owner.email", "frequency", "bigquery_link", "report_link"} :
        \/ f = "owner.email" /\ ~IsEmail(d.owner_email)
        \/ f = "frequency" /\ ~FrequencyOk(d.frequency)
        \/ f = "bigquery_link" /\ d.bigquery_link # None /\ ~IsHttpUrl(d.bigquery_link)
        \/ f = "report_link" /\ ~IsHttpUrl(d.report_link)}

\* a raised ValidationError carries no model
NoModel == [absent |-> TRUE]

\* mutants of the two rules of _cross_field_rules
BigQueryMissingAlways(p) == p.bigquery_link = None
NotesBlankOnlyWhenNone(p) == p.notes = NoneText

\* line 73: self.automated and self.bigquery_link is None
BigQueryMissing(p) == p.automated /\ p.bigquery_link = None

\* line 75: not self.notes or not str(self.notes).strip()
NotesBlank(p) ==
    \/ p.notes = NoneText
    \/ p.notes = <<>>
    \/ Strip(p.notes, WhiteSpace) = <<>>

\* Payload._cross_field_rules (lines 71-77), run on a model whose fields
\* all passed: raises ValueError or returns self with notes defaulted
CrossFieldRules(p) ==
    IF BigQueryMissing(p)
    THEN [ok |-> FALSE, errors |-> {"bigquery_link is required when automated=true"},
          model |-> NoModel]
    ELSE [ok |-> TRUE, errors |-> {},
          model |-> IF NotesBlank(p)
                    THEN [p EXCEPT !.notes = DefaultNotes(p.owner_email)]
                    ELSE p]

\* Payload(**document): field validation, then the after-validator; on
\* failure a ValidationError (no model is returned)
ValidatePayload(d) ==
    IF FieldErrors(d) # {}
    THEN [ok |-> FALSE, errors |-> FieldErrors(d), model |-> NoModel]
    ELSE CrossFieldRules(d)

---------------------------------------------------------------------------
(* ReportLab fallback of _write_pdf (lines 95-116)                         *)
(* Lengths are in hundredths of a point.                                   *)

A4Height == 84189     \* A4[1] = 297 mm = 841.89 pt
Margin == 4000        \* the 40 of beginText(40, height - 40) and getY() < 40
Leading == 1320       \* setFont("Times-Roman", 11): leading 1.2 * 11 pt

\* str.splitlines(): breaks at "\n", "\r" and "\r\n" (one break); no
\* empty last line after a final break.  SplitFrom takes the line that
\* starts at index i and goes on after its break.
BreakAt(s, i) == s[i] \in {"\n", "\r"}

RECURSIVE SplitFrom(_, _)
SplitFrom(s, i) ==
    IF i > Len(s) THEN <<>>
    ELSE LET brk == {j \in i..Len(s) : BreakAt(s, j)}
         IN  IF brk = {} THEN <<SubSeq(s, i, Len(s))>>
             ELSE LET e == CHOOSE j \in brk : \A k \in brk : j <= k
                      after == IF s[e] = "\r" /\ e < Len(s) /\ s[e + 1] = "\n"
                               THEN e + 2 ELSE e + 1
                  IN  <<SubSeq(s, i, e - 1)>> \o SplitFrom(s, after)

SplitLines(s) == SplitFrom(s, 1)

\* canvas page under construction: the text objects and footers drawn on it
\* (ops counts the drawing operations in the page's code)
BlankPage == [lines |-> <<>>, footers |-> <<>>, ops |-> 0]

\* text = c.beginText(40, height - 40): an empty text object at the top
NewText == [lines |-> <<>>, y |-> A4Height - Margin]

\* c.drawText(text): the text object's lines go onto the current page
DrawText(page, text) ==
    [page EXCEPT !.lines = @ \o text.lines, !.ops = @ + 1]

\* draw_footer(page_num) (lines 102-105)
DrawFooter(page, generated_at, page_num) ==
    [page EXCEPT !.footers = Append(@, [ts |-> generated_at, num |-> page_num]),
                 !.ops = @ + 1]

\* a mutant of NeedsBreak: the threshold test is never true
NeedsBreakNever(text) == FALSE

\* line 111: text.getY() < 40
NeedsBreak(text) == text.y < Margin

\* text.textLine(line): the line is placed at the cursor, which then
\* moves down by the leading
TextLine(text, line) ==
    [lines |-> Append(text.lines, [s |-> line, y |-> text.y]),
     y |-> text.y - Leading]

\* Canvas.save(): showPage() when the current page holds any code
SavePages(pages, page) == IF page.ops > 0 THEN Append(pages, page) ELSE pages

---------------------------------------------------------------------------
(* Authentication (lines 11-16)                                            *)

\* a mutant of RequireApiKey: the "not API_KEY" test is dropped
RequireApiKeyNoSecretTest(secret, x_api_key) == x_api_key = secret

\* require_api_key: TRUE when the dependency returns, FALSE when it raises
\* HTTPException(401).  secret is API_KEY; Header(None) gives None when the
\* header is absent
RequireApiKey(secret, x_api_key) ==
    ~((secret = None \/ secret = "") \/ x_api_key # secret)

---------------------------------------------------------------------------
(* base64 (line 167) and the response fields (lines 161-169)               *)

B64Chars ==
    <<"A","B","C","D","E","F","G","H","I","J","K","L","M","N","O","P",
      "Q","R","S","T","U","V","W","X","Y","Z","a","b","c","d","e","f",
      "g","h","i","j","k","l","m","n","o","p","q","r","s","t","u","v",
      "w","x","y","z","0","1","2","3","4","5","6","7","8","9","+","/">>

B64Char(k) == B64Chars[k + 1]
B64Index(c) == CHOOSE k \in 0..63 : B64Chars[k + 1] = c

\* base64.b64encode(b).decode("ascii"): three bytes to four characters,
\* the last group padded with "="
RECURSIVE B64Encode(_)
B64Encode(b) ==
    IF b = <<>> THEN <<>>
    ELSE IF Len(b) = 1 THEN
        <<B64Char(b[1] \div 4), B64Char((b[1] % 4) * 16), "=", "=">>
    ELSE IF Len(b) = 2 THEN
        <<B64Char(b[1] \div 4), B64Char((b[1] % 4) * 16 + b[2] \div 16),
          B64Char((b[2] % 16) * 4), "=">>
    ELSE
        <<B64Char(b[1] \div 4), B64Char((b[1] % 4) * 16 + b[2] \div 16),
          B64Char((b[2] % 16) * 4 + b[3] \div 64), B64Char(b[3] % 64)>>
            \o B64Encode(SubSeq(b, 4, Len(b)))

\* str.replace(" ", "_")
ReplaceSpaces(s) == [i \in 1..Len(s) |-> IF s[i] = " " THEN "_" ELSE s[i]]

\* line 165: f"{payload.title.replace(' ', '_')}.pdf"
ResponseFilename(title) == ReplaceSpaces(title) \o PdfSuffix

\* str(request.base_url): the URL the client addressed, ending in "/"
BaseUrl == <<"h","t","t","p",":","/","/","s","v","c","/">>

\* lines 161-162: base = str(request.base_url).rstrip("/"); f"{base}/file/{fname}"
FileUrl(fname) ==
    RStrip(BaseUrl, {"/"}) \o <<"/","f","i","l","e","/">> \o fname

---------------------------------------------------------------------------
(* Files                                                                   *)

\* the function f with x mapped to v (x added when it is new)
Put(f, x, v) == [y \in DOMAIN f \cup {x} |-> IF y = x THEN v ELSE f[y]]

\* tempfile.NamedTemporaryFile(delete=False): a path that names no
\* existing file (created exclusively)
TmpName(existing) == CHOOSE n \in 1..(Cardinality(existing) + 1) : n \notin existing

\* a mutant of UnlinkRuns: cleanup only on the success path
UnlinkRunsOnSuccessOnly(outcome) == outcome = "ok"

\* lines 120-122: the finally clause runs os.unlink on every exit path
UnlinkRuns(outcome) == TRUE

\* the renderer's document for a payload: the PDF signature, then content
\* that grows with the title (an opaque, deterministic stand-in for
\* WeasyPrint's or ReportLab's output)
RenderPdf(payload) == <<37, 80, 68, 70>> \o [i \in 1..Len(payload.title) |-> 64 + i]

\* a mutant of PersistsPdf: /render stores its PDF as well
PersistsPdfAlways(endpoint) == TRUE

\* only render_pdf_base64 goes on to lines 155-159
PersistsPdf(endpoint) == endpoint = "render_b64"

\* open(final_path, "wb"): the file is created or cut to length 0
OpenTruncate(dir, name) == Put(dir, name, <<>>)

\* out.write(pdf_bytes) on a descriptor at offset 0: the bytes overlay the
\* start of whatever the file holds by then
WriteAtStart(old, bytes) == bytes \o SubSeq(old, Len(bytes) + 1, Len(old))

NoResponse == [endpoint |-> "none"]

\* download_file (lines 134-139)
DownloadFile(dir, file_name) ==
    IF file_name \notin DOMAIN dir
    THEN [status |-> 404, body |-> <<>>]
    ELSE [status |-> 200, body |-> dir[file_name]]

---------------------------------------------------------------------------
(* Bounds and input sets                                                   *)

MaxTitleLen == 4      \* longest title drawn for _safe_filename
MaxNotesLen == 2      \* longest notes text drawn for the validator
MaxLines == 117       \* most source lines drawn for the paginator
NumReq == 2           \* POST requests handled in one run (worker slots)
MaxTicks == 1         \* seconds the clock advances in one run
MaxUnlinkFailures == 1  \* failing os.unlink calls in one run

RECURSIVE SeqsUpTo(_, _)
SeqsUpTo(S, n) ==
    IF n = 0 THEN {<<>>}
    ELSE LET shorter == SeqsUpTo(S, n - 1)
         IN  shorter \cup {Append(q, c) : q \in {r \in shorter : Len(r) = n - 1}, c \in S}

WeeklyReportTitle ==
    <<"W","e","e","k","l","y"," ","R","e","p","o","r","t","!","!">>

FnTitles == SeqsUpTo({"a", "_", "-", " ", "!"}, MaxTitleLen) \cup {WeeklyReportTitle}
FnClocks == {0, 9, 10, 1700000000}

ValEmails == {<<"a","@","b">>, <<"a","b">>}
ValDocs ==
    [title : {<<"T">>},
     owner_email : ValEmails,
     frequency : {"daily", "weekly", "monthly", "yearly"},
     automated : BOOLEAN,
     bigquery_link : {None, "http://bq.example/q", "not a url"},
     report_link : {"https://sheets.example/r", "not a url"},
     notes : {NoneText} \cup SeqsUpTo({" ", "\t", "x"}, MaxNotesLen)]

\* n lines joined by "\n", with or without a final "\n"; line k is the
\* decimal text of k
NumberedSource(n, final) ==
    LET piece(k) == IntToStr(k) \o (IF k < n \/ final THEN <<"\n">> ELSE <<>>)
        start(k) == IF k = 1 THEN 0
                    ELSE (IF k <= 10 THEN 2 * (k - 1)
                          ELSE IF k <= 100 THEN 18 + 3 * (k - 10)
                          ELSE 288 + 4 * (k - 100))
        total == IF n = 0 THEN 0 ELSE start(n) + Len(piece(n))
        lineOf(p) == IF p <= 18 THEN (p + 1) \div 2
                     ELSE IF p <= 288 THEN 10 + (p - 19) \div 3
                     ELSE 100 + (p - 289) \div 4
    IN  [p \in 1..total |-> piece(lineOf(p))[p - start(lineOf(p))]]

PdfSources ==
    {NumberedSource(n, f) : n \in 0..MaxLines, f \in BOOLEAN}
        \cup SeqsUpTo({"x", "\n", "\r"}, 3)

GeneratedAt == "2024-05-01 10:00"

Slots == 1..NumReq
Clocks == 9..(9 + MaxTicks)

Secrets == {None, "", "k"}
Headers == {None, "", "k", "K"}

TitleA == <<"a">>
TitleASpace == <<"a", " ">>
TitleB == <<"b">>
SvcTitles == {TitleA, TitleASpace, TitleB}

SvcDoc(title, automated) ==
    [title |-> title, owner_email |-> <<"a","@","b">>, frequency |-> "weekly",
     automated |-> automated, bigquery_link |-> None,
     report_link |-> "https://sheets.example/r", notes |-> NoneText]

\* request bodies: minimal valid payloads, and one that breaks the
\* cross-field rule; /render_b64 is tried with every title
BodiesFor(endpoint) ==
    {SvcDoc(t, FALSE) : t \in IF endpoint = "render_b64" THEN SvcTitles ELSE {TitleA}}
        \cup {SvcDoc(TitleA, TRUE)}

\* names asked of GET /file: names the service stores, a "filename" field
\* it returns, and one it never stores
GetNames ==
    {SafeFilename(TitleA, 9), SafeFilename(TitleB, 9), ResponseFilename(TitleA),
     <<"n","o",".","p","d","f">>}

---------------------------------------------------------------------------
(* The pure operations as one-call state machines                          *)

FnIdle == [pc |-> "off"]
ValIdle == [pc |-> "off"]
PdfIdle == [pc |-> "off"]

\* one call of _safe_filename(title) at clock reading t
FnCall ==
    /\ fn.pc = "call"
    /\ fn' = [fn EXCEPT !.pc = "ret", !.out = SafeFilename(fn.title, fn.t)]
    /\ UNCHANGED <<svcVars, val, pdf>>

\* one Payload(**doc)
ValCall ==
    /\ val.pc = "call"
    /\ val' = [val EXCEPT !.pc = "ret", !.res = ValidatePayload(val.doc)]
    /\ UNCHANGED <<svcVars, fn, pdf>>

\* lines 107-110: page_num = 1, a fresh text object, the loop's iterator
FbStart ==
    /\ pdf.pc = "start"
    /\ pdf' = [pdf EXCEPT !.pc = "loop", !.lines = SplitLines(pdf.src), !.i = 1,
                          !.page_num = 1, !.text = NewText, !.page = BlankPage,
                          !.pages = <<>>]
    /\ UNCHANGED <<svcVars, fn, val>>

\* lines 111-114: the cursor is under the margin, so the page is flushed
\* with its footer and a new page and text object are started
FbPageBreak ==
    /\ pdf.pc = "loop"
    /\ pdf.i <= Len(pdf.lines)
    /\ NeedsBreak(pdf.text)
    /\ pdf' = [pdf EXCEPT
                 !.pc = "line",
                 !.pages = Append(@, DrawFooter(DrawText(pdf.page, pdf.text),
                                                pdf.generated_at, pdf.page_num)),
                 !.page = BlankPage,
                 !.page_num = @ + 1,
                 !.text = NewText]
    /\ UNCHANGED <<svcVars, fn, val>>

\* line 115: text.textLine(line)
FbTextLine ==
    /\ \/ pdf.pc = "line"
       \/ pdf.pc = "loop" /\ pdf.i <= Len(pdf.lines) /\ ~NeedsBreak(pdf.text)
    /\ pdf' = [pdf EXCEPT !.pc = "loop", !.i = @ + 1,
                          !.text = TextLine(@, pdf.lines[pdf.i])]
    /\ UNCHANGED <<svcVars, fn, val>>

\* line 116: c.drawText(text); draw_footer(page_num); c.save()
FbSave ==
    /\ pdf.pc = "loop"
    /\ pdf.i > Len(pdf.lines)
    /\ pdf' = [pdf EXCEPT
                 !.pc = "done",
                 !.page = BlankPage,
                 !.pages = SavePages(@, DrawFooter(DrawText(pdf.page, pdf.text),
                                                   pdf.generated_at, pdf.page_num))]
    /\ UNCHANGED <<svcVars, fn, val>>

---------------------------------------------------------------------------
(* The service.  The handlers of POST /render and POST /render_b64 run     *)
(* step by step in worker slots (FastAPI runs these def handlers on a      *)
(* thread pool, so their steps interleave); a POST that is rejected before *)
(* _write_pdf is answered at once.  GET /ping and GET /file only read.     *)

Phases == {"auth", "validation", "templates", "pdf"}

\* a worker slot before its handler starts, and after it has answered
\* (the handler's locals are gone by then)
IdleReq ==
    [pc |-> "idle", endpoint |-> "none", x_api_key |-> None, passed |-> {},
     payload |-> NoModel,
     tmp_path |-> 0, pdf_bytes |-> <<>>, fname |-> <<>>, name_t |-> 0,
     disturbed |-> FALSE]
DoneReq == [IdleReq EXCEPT !.pc = "done"]

\* what is remembered about a stored name (history):
\*   base, sec  the sanitised title and the second of its first writer
\*   writes     how many requests have written it
\*   bytes      the PDF of the latest request that wrote it
\*   resp       that request's JSON response
\*   intact     no other request opened or wrote the name from that
\*              request's open on
\*   quiet      no other request opened or wrote the name since that
\*              request's response
NewHist(base, sec) ==
    [base |-> base, sec |-> sec, writes |-> 0, bytes |-> <<>>, resp |-> NoResponse,
     intact |-> FALSE, quiet |-> FALSE]

\* slot q holds the stored file `name` open, not yet written
Writing(q, name) == req[q].pc = "write" /\ req[q].fname = name

\* another request touches `name`: the slots holding it open are disturbed
Disturb(r, name) ==
    [q \in Slots |->
        IF q # r /\ Writing(q, name) THEN [req[q] EXCEPT !.disturbed = TRUE]
        ELSE req[q]]

\* the error response of a request that got through the phases `passed`
ErrorResponse(endpoint, x_api_key, passed, code) ==
    [endpoint |-> endpoint, x_api_key |-> x_api_key, passed |-> passed,
     status |-> code]

\* The framework's part of a POST and the handler up to the renderer: the
\* require_api_key dependency (401), the Payload body (422), lines 143-144
\* / 151-152 (a template that fails to render is a 500), and the first
\* lines of _write_pdf (89-90), which create the temporary file
Receive(r) ==
    /\ req[r].pc = "idle"
    /\ \A q \in Slots : q < r => req[q].pc # "idle"   \* slots fill in order
    /\ \E endpoint \in {"render", "render_b64"}, x_api_key \in Headers :
         IF ~RequireApiKey(API_KEY, x_api_key)
         THEN /\ sent' = ErrorResponse(endpoint, x_api_key, {}, 401)
              /\ UNCHANGED <<req, tmpfiles>>
         ELSE \E doc \in BodiesFor(endpoint), templates_ok \in BOOLEAN :
                LET res == ValidatePayload(doc)
                    path == TmpName(tmpfiles)
                IN  IF ~res.ok
                    THEN /\ sent' = ErrorResponse(endpoint, x_api_key, {"auth"}, 422)
                         /\ UNCHANGED <<req, tmpfiles>>
                    ELSE IF ~templates_ok
                    THEN /\ sent' = ErrorResponse(endpoint, x_api_key,
                                                  {"auth", "validation"}, 500)
                         /\ UNCHANGED <<req, tmpfiles>>
                    ELSE /\ sent' = NoResponse
                         /\ tmpfiles' = tmpfiles \cup {path}
                         /\ req' = [req EXCEPT ![r] =
                                [IdleReq EXCEPT
                                    !.pc = "produce", !.endpoint = endpoint,
                                    !.x_api_key = x_api_key,
                                    !.passed = {"auth", "validation", "templates"},
                                    !.payload = res.model, !.tmp_path = path]]
    /\ UNCHANGED <<API_KEY, WEASY_OK, now, files, leaked, hist, fn, val, pdf>>

\* _write_pdf, lines 91-123: the renderer writes the temporary file, the
\* bytes are read back, and the finally clause unlinks the file, ignoring
\* a failing unlink; the renderer or the read may raise (a 500).  Then,
\* for /render, lines 146-147 answer with the bytes.
WritePdf(r) ==
    /\ req[r].pc = "produce"
    /\ \E outcome \in {"ok", "renderer raises", "read raises"}, unlink_ok \in BOOLEAN :
         LET q == req[r]
             bytes == RenderPdf(q.payload)
         IN  /\ ~unlink_ok => Cardinality(leaked) < MaxUnlinkFailures
             /\ tmpfiles' = IF UnlinkRuns(outcome) /\ unlink_ok
                            THEN tmpfiles \ {q.tmp_path} ELSE tmpfiles
             /\ leaked' = IF UnlinkRuns(outcome) /\ ~unlink_ok
                          THEN leaked \cup {q.tmp_path} ELSE leaked
             /\ IF outcome # "ok"
                THEN /\ req' = [req EXCEPT ![r] = DoneReq]
                     /\ sent' = ErrorResponse(q.endpoint, q.x_api_key, q.passed, 500)
                ELSE IF PersistsPdf(q.endpoint)
                THEN /\ req' = [req EXCEPT ![r] =
                            [q EXCEPT !.pc = "store", !.pdf_bytes = bytes,
                                      !.passed = Phases, !.tmp_path = 0]]
                     /\ sent' = NoResponse
                ELSE /\ req' = [req EXCEPT ![r] = DoneReq]
                     /\ sent' = [endpoint |-> q.endpoint, x_api_key |-> q.x_api_key,
                                 passed |-> Phases, status |-> 200, body |-> bytes]
    /\ UNCHANGED <<API_KEY, WEASY_OK, now, files, hist, fn, val, pdf>>

\* render_pdf_base64, lines 156-158: the name is computed from the title
\* and the clock, and the file is opened for writing
StoreOpen(r) ==
    /\ req[r].pc = "store"
    /\ LET name == SafeFilename(req[r].payload.title, now)
       IN  /\ files' = OpenTruncate(files, name)
           /\ req' = [Disturb(r, name) EXCEPT
                        ![r] = [req[r] EXCEPT !.pc = "write", !.fname = name,
                                              !.name_t = now]]
           /\ hist' = IF name \in DOMAIN hist
                      THEN [hist EXCEPT ![name].intact = FALSE, ![name].quiet = FALSE]
                      ELSE Put(hist, name, NewHist(SafeBase(req[r].payload.title), now))
    /\ sent' = NoResponse
    /\ UNCHANGED <<API_KEY, WEASY_OK, now, tmpfiles, leaked, fn, val, pdf>>

\* render_pdf_base64, lines 159-169: the bytes are written and the file
\* closed, and the JSON response is returned
StoreWrite(r) ==
    /\ req[r].pc = "write"
    /\ LET q == req[r]
           resp == [endpoint |-> q.endpoint, x_api_key |-> q.x_api_key,
                    passed |-> q.passed, status |-> 200,
                    filename |-> ResponseFilename(q.payload.title),
                    mime |-> "application/pdf",
                    data |-> B64Encode(q.pdf_bytes),
                    file_url |-> FileUrl(q.fname)]
       IN  /\ files' = [files EXCEPT ![q.fname] = WriteAtStart(@, q.pdf_bytes)]
           /\ req' = [Disturb(r, q.fname) EXCEPT ![r] = DoneReq]
           /\ hist' = [hist EXCEPT ![q.fname].writes = @ + 1,
                                   ![q.fname].bytes = q.pdf_bytes,
                                   ![q.fname].resp = resp,
                                   ![q.fname].intact = ~q.disturbed,
                                   ![q.fname].quiet = TRUE]
           /\ sent' = resp
    /\ UNCHANGED <<API_KEY, WEASY_OK, now, tmpfiles, leaked, fn, val, pdf>>

\* ping (lines 130-132)
PingResponse == [ok |-> TRUE, weasyprint |-> WEASY_OK]

\* GET /ping: answers PingResponse and changes nothing
Ping ==
    /\ PingResponse.ok
    /\ UNCHANGED vars

\* GET /file/{file_name}: answers DownloadFile(files, file_name) and
\* changes nothing
GetFile ==
    /\ \E file_name \in GetNames : DownloadFile(files, file_name).status \in {200, 404}
    /\ UNCHANGED vars

\* a second passes
Tick ==
    /\ now + 1 \in Clocks
    /\ now' = now + 1
    /\ sent' = NoResponse
    /\ UNCHANGED <<API_KEY, WEASY_OK, files, tmpfiles, leaked, hist, req, fn, val, pdf>>

\* the process after import, with WeasyPrint importable (SpecFallback
\* takes the other renderer): the secret is set or not, FILES_DIR exists
\* and nothing is in flight
Init ==
    /\ API_KEY \in Secrets
    /\ WEASY_OK = TRUE
    /\ now = 9
    /\ files = <<>>
    /\ tmpfiles = {}
    /\ leaked = {}
    /\ hist = <<>>
    /\ req = [r \in Slots |-> IdleReq]
    /\ sent = NoResponse
    /\ fn = FnIdle /\ val = ValIdle /\ pdf = PdfIdle

Next ==
    \/ \E r \in Slots : Receive(r)
    \/ \E r \in Slots : WritePdf(r)
    \/ \E r \in Slots : StoreOpen(r)
    \/ \E r \in Slots : StoreWrite(r)
    \/ Ping
    \/ GetFile
    \/ Tick

Spec == Init /\ [][Next]_vars

---------------------------------------------------------------------------
(* Specifications of the pure operations                                   *)

\* the service at rest, for the specifications that exercise one function
SvcOff ==
    /\ API_KEY = None
    /\ WEASY_OK = FALSE
    /\ now = 0
    /\ files = <<>>
    /\ tmpfiles = {}
    /\ leaked = {}
    /\ hist = <<>>
    /\ req = <<>>
    /\ sent = NoResponse

InitFilename ==
    /\ SvcOff /\ val = ValIdle /\ pdf = PdfIdle
    /\ fn \in [pc : {"call"}, title : FnTitles, t : FnClocks, out : {<<>>}]

NextFilename == FnCall

SpecFilename == InitFilename /\ [][NextFilename]_vars

InitValidate ==
    /\ SvcOff /\ fn = FnIdle /\ pdf = PdfIdle
    /\ val \in [pc : {"call"}, doc : ValDocs, res : {NoModel}]

NextValidate == ValCall

SpecValidate == InitValidate /\ [][NextValidate]_vars

InitFallback ==
    /\ SvcOff /\ fn = FnIdle /\ val = ValIdle
    /\ pdf \in [pc : {"start"}, src : PdfSources, generated_at : {GeneratedAt},
                lines : {<<>>}, i : {1}, page_num : {1}, text : {NewText},
                page : {BlankPage}, pages : {<<>>}]

NextFallback == FbStart \/ FbPageBreak \/ FbTextLine \/ FbSave

SpecFallback == InitFallback /\ [][NextFallback]_vars

---------------------------------------------------------------------------
(* C8: _safe_filename                                                      *)

SetMin(S) == CHOOSE x \in S : \A y \in S : x <= y
SetMax(S) == CHOOSE x \in S : \A y \in S : y <= x

\* the title with every maximal run of characters outside the class
\* turned into one "_": a character survives when it is in the class, and
\* a character outside it leaves a "_" only when it starts its run
Collapsed(title) ==
    LET keep == {i \in 1..Len(title) :
                    SafeChar(title[i]) \/ i = 1 \/ SafeChar(title[i - 1])}
        nth(j) == CHOOSE i \in keep : Cardinality({k \in keep : k <= i}) = j
    IN  [j \in 1..Cardinality(keep) |->
            IF SafeChar(title[nth(j)]) THEN title[nth(j)] ELSE "_"]

\* ... then without its leading and trailing underscores, or "report"
ExpectedBase(title) ==
    LET c == Collapsed(title)
        inner == {i \in 1..Len(c) : c[i] # "_"}
    IN  IF inner = {} THEN ReportWord ELSE SubSeq(c, SetMin(inner), SetMax(inner))

RECURSIVE DigitsValue(_)
DigitsValue(d) ==
    IF d = <<>> THEN 0
    ELSE 10 * DigitsValue(SubSeq(d, 1, Len(d) - 1))
         + (CHOOSE k \in 0..9 : DigitChars[k + 1] = d[Len(d)])

\* C8: for every title, _safe_filename returns "{base}_{unix_seconds}.pdf"
\* where base is the title with each maximal run of characters outside
\* [A-Za-z0-9_-] replaced by one underscore, stripped of leading and
\* trailing underscores, or "report" when that is empty; base is non-empty,
\* holds only characters of the class and neither starts nor ends with an
\* underscore; "Weekly Report!!" gives Weekly_Report_<digits>.pdf.
C8_SafeFilename ==
    fn.pc = "ret" =>
        LET base == ExpectedBase(fn.title)
            digits == SubSeq(fn.out, Len(base) + 2, Len(fn.out) - 4)
        IN  /\ Len(fn.out) >= Len(base) + 6
            /\ SubSeq(fn.out, 1, Len(base)) = base
            /\ fn.out[Len(base) + 1] = "_"
            /\ digits # <<>>
            /\ \A i \in 1..Len(digits) : digits[i] \in Digit
            /\ DigitsValue(digits) = fn.t
            /\ SubSeq(fn.out, Len(fn.out) - 3, Len(fn.out)) = PdfSuffix
            /\ base # <<>>
            /\ \A i \in 1..Len(base) : SafeChar(base[i])
            /\ base[1] # "_" /\ base[Len(base)] # "_"
            /\ fn.title = WeeklyReportTitle =>
                 base = <<"W","e","e","k","l","y","_","R","e","p","o","r","t">>

\* a title whose runs collapse and whose underscores are stripped
C8_Witness ==
    /\ fn.pc = "ret"
    /\ fn.title = <<"_", "a", "!", "!">>
    /\ fn.t = 10
    /\ fn.out = <<"a", "_", "1", "0", ".", "p", "d", "f">>

---------------------------------------------------------------------------
(* C3, C4: Payload validation                                              *)

\* C3: for every payload whose individual fields are all well-formed,
\* validation fails if and only if automated=true and bigquery_link is
\* absent; the failure is a rejection (no model is produced), and with
\* automated=false validation succeeds with or without bigquery_link.
C3_CrossFieldRejects ==
    (val.pc = "ret" /\ FieldErrors(val.doc) = {}) =>
        /\ ~val.res.ok <=> (val.doc.automated /\ val.doc.bigquery_link = None)
        /\ ~val.res.ok => val.res.model = NoModel
        /\ ~val.doc.automated => val.res.ok

C3_Witness ==
    /\ val.pc = "ret"
    /\ FieldErrors(val.doc) = {}
    /\ val.doc.automated /\ val.doc.bigquery_link = None
    /\ ~val.res.ok

---------------------------------------------------------------------------
(* C10: the fallback paginator                                             *)

RECURSIVE PageLines(_)
PageLines(pages) ==
    IF pages = <<>> THEN <<>>
    ELSE PageLines(SubSeq(pages, 1, Len(pages) - 1)) \o pages[Len(pages)].lines

\* every line placed so far, in the order it was placed: the lines of the
\* flushed pages, then those of the text object not drawn yet
Placed ==
    PageLines(pdf.pages) \o pdf.page.lines
        \o (IF pdf.pc = "done" THEN <<>> ELSE pdf.text.lines)

C10_State ==
    pdf.pc \in {"loop", "line", "done"} =>
        \* each source line is written exactly once and in source order
        /\ [k \in 1..Len(Placed) |-> Placed[k].s] = SubSeq(pdf.lines, 1, pdf.i - 1)
        /\ pdf.pc = "done" => pdf.i = Len(pdf.lines) + 1
        \* no line is written while the cursor is below the threshold
        /\ \A k \in 1..Len(Placed) : Placed[k].y >= Margin
        \* every page after the first holds at least one line
        /\ \A k \in 2..Len(pdf.pages) : pdf.pages[k].lines # <<>>
        \* one footer per page, same timestamp, numbers 1..P
        /\ \A k \in 1..Len(pdf.pages) :
              pdf.pages[k].footers = <<[ts |-> pdf.generated_at, num |-> k]>>
        /\ pdf.pc = "done" => Len(pdf.pages) = pdf.page_num
        \* an empty source gives exactly one page, numbered 1
        /\ (pdf.pc = "done" /\ pdf.src = <<>>) =>
              /\ Len(pdf.pages) = 1
              /\ pdf.pages[1].footers[1].num = 1

\* a page is flushed inside the loop only with the cursor under the
\* threshold and a line pending, and that line is the next thing written
C10_Step ==
    /\ (Len(pdf'.pages) > Len(pdf.pages) /\ pdf'.pc # "done") =>
          /\ pdf.text.y < Margin
          /\ pdf.i <= Len(pdf.lines)
          /\ pdf'.pc = "line"
    /\ pdf.pc = "line" =>
          /\ pdf'.i = pdf.i + 1
          /\ Len(pdf'.text.lines) = 1
          /\ pdf'.pages = pdf.pages

\* C10: in the fallback path, for every Markdown source: each line is
\* written once and in order; a page break happens only immediately before
\* writing a line when the cursor is below the bottom margin, so later
\* pages are never empty and no line is written below the margin; every
\* page carries one footer with the same timestamp and the numbers 1..P;
\* an empty source yields one page with footer number 1.
C10_Pagination == [](C10_State) /\ [][C10_Step]_vars

\* three pages, the third holding the one line that did not fit
C10_Witness ==
    /\ pdf.pc = "done"
    /\ Len(pdf.pages) = 3
    /\ Len(pdf.pages[1].lines) = 58
    /\ Len(pdf.pages[3].lines) = 1

---------------------------------------------------------------------------
(* C2: authentication                                                      *)

\* the header is present and equals a secret that is set and non-empty
KeyMatches(x_api_key) ==
    /\ API_KEY # None /\ API_KEY # ""
    /\ x_api_key # None
    /\ x_api_key = API_KEY

C2_State ==
    /\ sent # NoResponse =>
          /\ "auth" \in sent.passed <=> KeyMatches(sent.x_api_key)
          /\ sent.status = 401 <=> ~KeyMatches(sent.x_api_key)
    /\ \A r \in Slots : req[r].pc \notin {"idle", "done"} =>
          /\ "auth" \in req[r].passed
          /\ KeyMatches(req[r].x_api_key)

\* C2: a POST /render or /render_b64 passes authentication if and only if
\* the secret read at startup is set and non-empty and the X-API-Key
\* header is present and equal to it; in every other case the request
\* fails with 401; the secret never changes after process start.
C2_Authentication == [](C2_State) /\ [][API_KEY' = API_KEY]_vars

\* an empty secret: even the equal, empty header is turned away
C2_Witness ==
    /\ API_KEY = ""
    /\ sent # NoResponse
    /\ sent.x_api_key = ""
    /\ sent.status = 401

---------------------------------------------------------------------------
(* C5: temporary files                                                     *)

\* the slots inside _write_pdf
InWritePdf == {r \in Slots : req[r].pc = "produce"}

\* each running call has a temporary file of its own
TempPrivate ==
    /\ \A r \in InWritePdf : req[r].tmp_path \in tmpfiles
    /\ \A r1, r2 \in InWritePdf : r1 # r2 => req[r1].tmp_path # req[r2].tmp_path

\* the claim as written: a temporary file exists only while its call runs
C5_Original ==
    /\ TempPrivate
    /\ \A p \in tmpfiles : \E r \in InWritePdf : req[r].tmp_path = p

\* C5 (amended): every call of _write_pdf creates a temporary file private
\* to that call and tries to remove it on every exit path; once the call
\* has returned or raised the file is gone unless that os.unlink itself
\* failed (the failure is ignored), so the only temporary files left after
\* any interleaving of requests are those whose unlink failed.
C5_TempFiles ==
    /\ TempPrivate
    /\ \A p \in tmpfiles : (\E r \in InWritePdf : req[r].tmp_path = p) \/ p \in leaked
    /\ \A r \in InWritePdf : req[r].tmp_path \notin leaked

\* _write_pdf has just raised in one request while another is inside it:
\* only the running call's file exists
C5_Witness ==
    /\ sent # NoResponse
    /\ sent.status = 500
    /\ "templates" \in sent.passed
    /\ Cardinality(InWritePdf) = 1
    /\ \A r \in InWritePdf : tmpfiles = {req[r].tmp_path}
    /\ leaked = {}

---------------------------------------------------------------------------
(* C6: what changes the storage directory                                  *)

C6_Step ==
    /\ files' # files =>
          \E r \in Slots :
              /\ req[r].endpoint = "render_b64"
              /\ req[r].passed = Phases
              /\ req[r].pc \in {"store", "write"}
              /\ req'[r].pc # req[r].pc
    /\ \A n \in DOMAIN files : n \in DOMAIN files'
    /\ (sent' # NoResponse /\ (sent'.endpoint = "render" \/ sent'.status # 200)) =>
          files' = files
    /\ req' = req => files' = files

\* C6: the storage directory changes only through a POST /render_b64 that
\* has passed authentication, validation, template rendering and PDF
\* production; GET /ping, GET /file, POST /render and every rejected or
\* failed POST /render_b64 leave the stored files and their contents
\* unchanged, and no operation removes a stored file.
C6_StorageFrame == [][C6_Step]_vars

\* a /render request is answered while a stored file exists
C6_Witness ==
    /\ sent # NoResponse
    /\ sent.endpoint = "render"
    /\ sent.status = 200
    /\ \E n \in DOMAIN files : files[n] # <<>>

---------------------------------------------------------------------------
(* C1, C7: reading back what /render_b64 stored                            *)

\* base64 decoding: four characters to three bytes, "=" padding dropped
RECURSIVE B64Decode(_)
B64Decode(t) ==
    IF t = <<>> THEN <<>>
    ELSE LET a == B64Index(t[1])
             b == B64Index(t[2])
             one == <<a * 4 + b \div 16>>
         IN  (IF t[3] = "=" THEN one
              ELSE LET c == B64Index(t[3])
                       two == one \o <<(b % 16) * 16 + c \div 4>>
                   IN  IF t[4] = "=" THEN two
                       ELSE two \o <<(c % 4) * 64 + B64Index(t[4])>>)
             \o B64Decode(SubSeq(t, 5, Len(t)))

\* the part of a URL after its last "/"
LastSegment(url) ==
    LET slashes == {i \in 1..Len(url) : url[i] = "/"}
    IN  SubSeq(url, SetMax(slashes) + 1, Len(url))

\* the stored names whose latest writer has answered
Answered == {n \in DOMAIN hist : hist[n].resp # NoResponse}

\* C1: for every successful POST /render_b64, a subsequent GET /file/{name}
\* with name the "filename" field of the response returns the bytes the
\* "data" field encodes.
C1_FilenameRoundTrip ==
    \A n \in Answered :
        hist[n].quiet =>
            DownloadFile(files, hist[n].resp.filename)
                = [status |-> 200, body |-> B64Decode(hist[n].resp.data)]

\* the last segment of file_url is the stored name, every stored name is
\* a file, and GET /file for a name never stored is a 404
C7_Names ==
    /\ \A n \in Answered :
          /\ LastSegment(hist[n].resp.file_url) = n
          /\ n = hist[n].base \o <<"_">> \o IntToStr(hist[n].sec) \o PdfSuffix
    /\ \A n \in DOMAIN hist : n \in DOMAIN files
    /\ \A name \in GetNames \cup DOMAIN hist :
          name \notin DOMAIN hist => DownloadFile(files, name).status = 404

\* C7: for every successful POST /render_b64 the last path segment of
\* file_url is the name the PDF was written under,
\* {sanitized_title}_{unix_seconds}.pdf, so a GET /file on that name after
\* the response, with no other /render_b64 writing the same name in
\* between, returns 200 with the bytes the "data" field encodes; GET /file
\* for a name that was never stored returns 404.
C7_FileUrlRoundTrip ==
    /\ C7_Names
    /\ \A n \in Answered :
          hist[n].quiet =>
              DownloadFile(files, LastSegment(hist[n].resp.file_url))
                  = [status |-> 200, body |-> B64Decode(hist[n].resp.data)]

\* what the code does give: the round trip for a request that no other
\* request overlapped from its open(final_path, "wb") on
C7_WhenUndisturbed ==
    /\ C7_Names
    /\ \A n \in Answered :
          hist[n].intact =>
              DownloadFile(files, LastSegment(hist[n].resp.file_url))
                  = [status |-> 200, body |-> B64Decode(hist[n].resp.data)]

---------------------------------------------------------------------------
(* C9: colliding names                                                     *)

\* nobody holds the stored file `n` open
Settled(n) == \A r \in Slots : ~Writing(r, n)

\* same stored name if and only if same sanitised title and same second
C9_SameName ==
    /\ \A r \in Slots : req[r].pc = "write" =>
          /\ req[r].fname \in DOMAIN hist
          /\ hist[req[r].fname].base = ExpectedBase(req[r].payload.title)
          /\ hist[req[r].fname].sec = req[r].name_t
    /\ \A n1, n2 \in DOMAIN hist :
          (hist[n1].base = hist[n2].base /\ hist[n1].sec = hist[n2].sec) => n1 = n2

\* C9: two successful POST /render_b64 requests write to the same stored
\* filename if and only if their titles sanitise to the same base and
\* their filenames are computed within the same unix second; in that case
\* the later write replaces the earlier request's bytes, so that once the
\* colliding requests are through the file holds the PDF of the one that
\* wrote last; requests that differ in base or second never overwrite each
\* other.
C9_Collisions ==
    /\ C9_SameName
    /\ \A n \in Answered : Settled(n) => files[n] = hist[n].bytes

\* what the code does give: the later PDF replaces the earlier one when the
\* later request's open and write were not overlapped by another's
C9_WhenUndisturbed ==
    /\ C9_SameName
    /\ \A n \in Answered : (Settled(n) /\ hist[n].intact) => files[n] = hist[n].bytes

====
